---- MODULE Spec2Model ----
(***************************************************************************)
(* Model of histogram.py (jmwalls/windy): cleaning a daily weather table   *)
(* and binning the direction of the fastest 5-second wind into polar       *)
(* histograms, one for the whole table and one per calendar month.         *)
(*                                                                         *)
(* Numbers.  A field of the table is a whole number or NaN.  An angle is a *)
(* double, kept exactly: [sign, mag] stands for sign * mag * 2^-58, mag a  *)
(* natural number of any size written in digits base 2^15, and sign 0 is   *)
(* NaN.  Every operation on doubles is the exact operation followed by     *)
(* IEEE-754 rounding to the nearest double, ties to even, so that a        *)
(* comparison sees the values the program computes, an ulp above or below  *)
(* the real numbers they stand for.  The model holds the doubles that are  *)
(* whole multiples of 2^-58 (every double from 2^-6 up is one) and rounds  *)
(* as the machine does for results below 32 and up to 400 bins.  A         *)
(* normalised frequency is the fraction [num, den] of two counts, 0/0      *)
(* being NaN.                                                              *)
(*                                                                         *)
(* Tables.  A table is the sequence of its rows [DATE, WDF5, WSF5]; the    *)
(* dtype pandas gives its numeric columns is a function of the table.      *)
(*                                                                         *)
(* Series.  A pandas Series is a sequence of [label, value]; the label is  *)
(* the row number of the table the value came from.  Series.__getitem__    *)
(* with an array of integers on an integer index looks the integers up as  *)
(* LABELS, not as positions.                                               *)
(***************************************************************************)
EXTENDS Integers, Sequences, FiniteSets, TLC

VARIABLES
    pc,           \* position in main (or in the binner's own specification)
    pandas,       \* what Series.__getitem__ does with a label that is missing
    df,           \* the table read from the csv file
    date, wd, ws, \* the three Series _clean_wind_data returned
    i,            \* the loop counter of main's monthly loop
    heading_rad,  \* the latest _polar_histogram call: its argument heading_rad,
    bins,         \*   its argument bins,
    th, counts,   \*   its locals th and counts,
    bar,          \*   and the arguments of its ax.bar call
    axes          \* the subplots made so far, in order of creation

vars == <<pc, pandas, df, date, wd, ws, i, heading_rad, bins, th, counts, bar, axes>>
call == <<heading_rad, bins, th, counts, bar>>

----------------------------------------------------------------------------
(* Bounds of the model. *)

MaxRows == 3      \* rows of a table
MaxLen == 3       \* length of an angle sequence given to the binner alone
MaxBins == 6      \* bin counts 1..MaxBins given to the binner alone
MaxTurn == 2      \* single headings range over -MaxTurn*360 .. MaxTurn*360 degrees

----------------------------------------------------------------------------
(* Numbers *)

\* a missing field of the table
NaN == -1000000
IsNaN(x) == x = NaN

RECURSIVE SumTo(_, _)
SumTo(f, n) == IF n = 0 THEN 0 ELSE f[n - 1] + SumTo(f, n - 1)

Frac(n, d) == [num |-> n, den |-> d]
\* numpy's true division of two integers: 0/0 is NaN (the fraction 0/0), with a
\* warning and no exception.
TrueDivide(n, d) == Frac(n, d)
IsNaNFrac(f) == f.den = 0 /\ f.num = 0

----------------------------------------------------------------------------
(* Natural numbers of any size: the digits base 2^15, lowest first, the     *)
(* highest not 0; 0 is << >>.                                               *)

DigitBits == 15
Base == 2^DigitBits

RECURSIVE Big(_)
Big(n) == IF n = 0 THEN <<>> ELSE <<n % Base>> \o Big(n \div Base)

RECURSIVE Trim(_)
Trim(a) ==
    IF Len(a) > 0 /\ a[Len(a)] = 0 THEN Trim(SubSeq(a, 1, Len(a) - 1)) ELSE a

Digit(a, k) == IF k <= Len(a) THEN a[k] ELSE 0

RECURSIVE AddC(_, _, _, _)
AddC(a, b, k, c) ==
    IF k > Len(a) /\ k > Len(b) THEN Big(c)
    ELSE LET s == Digit(a, k) + Digit(b, k) + c
         IN  <<s % Base>> \o AddC(a, b, k + 1, s \div Base)
BigAdd(a, b) == AddC(a, b, 1, 0)

RECURSIVE SubC(_, _, _, _)
SubC(a, b, k, c) ==
    IF k > Len(a) THEN <<>>
    ELSE LET s == a[k] - Digit(b, k) - c
         IN  <<s % Base>> \o SubC(a, b, k + 1, IF s < 0 THEN 1 ELSE 0)
\* a - b, for a >= b
BigSub(a, b) == Trim(SubC(a, b, 1, 0))

RECURSIVE MulC(_, _, _, _)
MulC(a, m, k, c) ==
    IF k > Len(a) THEN Big(c)
    ELSE LET s == a[k] * m + c
         IN  <<s % Base>> \o MulC(a, m, k + 1, s \div Base)
\* a * m, for 0 <= m < Base
BigMul(a, m) == IF m = 0 THEN <<>> ELSE MulC(a, m, 1, 0)

RECURSIVE BigDivMod(_, _)
\* quotient and remainder of a by d, for 0 < d <= Base
BigDivMod(a, d) ==
    IF Len(a) = 0 THEN [quot |-> <<>>, rem |-> 0]
    ELSE LET hi == BigDivMod(Tail(a), d)
             s == hi.rem * Base + Head(a)
         IN  [quot |-> Trim(<<s \div d>> \o hi.quot), rem |-> s % d]

RECURSIVE BigCmp(_, _)
\* -1, 0 or 1 as a < b, a = b or a > b
BigCmp(a, b) ==
    IF Len(a) # Len(b) THEN (IF Len(a) < Len(b) THEN -1 ELSE 1)
    ELSE IF Len(a) = 0 THEN 0
    ELSE IF a[Len(a)] # b[Len(a)] THEN (IF a[Len(a)] < b[Len(a)] THEN -1 ELSE 1)
    ELSE BigCmp(SubSeq(a, 1, Len(a) - 1), SubSeq(b, 1, Len(a) - 1))

RECURSIVE BigMod(_, _)
\* a mod b, by subtraction
BigMod(a, b) == IF BigCmp(a, b) < 0 THEN a ELSE BigMod(BigSub(a, b), b)

RECURSIVE Bits(_)
Bits(n) == IF n = 0 THEN 0 ELSE 1 + Bits(n \div 2)
BitLength(a) ==
    IF Len(a) = 0 THEN 0 ELSE DigitBits * (Len(a) - 1) + Bits(a[Len(a)])

----------------------------------------------------------------------------
(* Doubles, in units of 2^-58 *)

\* the significand of a double has 53 bits
Mantissa == 53

\* The double nearest to p/q units, ties to the even significand: s is the
\* number of low bits that do not fit the significand.
RoundToDouble(p, q) ==
    LET bits == BitLength(BigDivMod(p, q).quot)
        s == IF bits > Mantissa THEN bits - Mantissa ELSE 0
        d == q * 2^s
        dm == BigDivMod(p, d)
        up == \/ 2 * dm.rem > d
              \/ 2 * dm.rem = d /\ Digit(dm.quot, 1) % 2 = 1
    IN  BigMul(IF up THEN BigAdd(dm.quot, <<1>>) ELSE dm.quot, 2^s)

Double(s, m) == [sign |-> IF Len(m) = 0 THEN 1 ELSE s, mag |-> m]
Zero == Double(1, <<>>)
FNaN == [sign |-> 0, mag |-> <<>>]
IsFNaN(x) == x.sign = 0

Neg(x) == IF IsFNaN(x) THEN FNaN ELSE Double(-x.sign, x.mag)

\* x + y without rounding, for doubles that are not NaN
ExactAdd(x, y) ==
    IF x.sign = y.sign THEN Double(x.sign, BigAdd(x.mag, y.mag))
    ELSE IF BigCmp(x.mag, y.mag) >= 0 THEN Double(x.sign, BigSub(x.mag, y.mag))
    ELSE Double(y.sign, BigSub(y.mag, x.mag))

\* x + y
FAdd(x, y) ==
    IF IsFNaN(x) \/ IsFNaN(y) THEN FNaN
    ELSE LET e == ExactAdd(x, y) IN Double(e.sign, RoundToDouble(e.mag, 1))

\* x * n and x / n, for a whole number n (itself a double) with 0 <= n < Base,
\* and 0 < n for the division
FMulInt(x, n) ==
    IF IsFNaN(x) THEN FNaN ELSE Double(x.sign, RoundToDouble(BigMul(x.mag, n), 1))
FDivInt(x, n) ==
    IF IsFNaN(x) THEN FNaN ELSE Double(x.sign, RoundToDouble(x.mag, n))

\* x % y for y > 0, as numpy and Python compute it: fmod(x, y), which is exact
\* and has the sign of x, then + y (rounded) when it is negative.
FMod(x, y) ==
    IF IsFNaN(x) THEN FNaN
    ELSE LET m == BigMod(x.mag, y.mag)
         IN  IF Len(m) = 0 THEN Zero
             ELSE IF x.sign = 1 THEN Double(1, m)
             ELSE FAdd(Double(-1, m), y)

\* x < y and x > y; a comparison with NaN is False
FLt(x, y) ==
    /\ ~IsFNaN(x) /\ ~IsFNaN(y)
    /\ IF x.sign # y.sign THEN x.sign < y.sign
       ELSE IF x.sign = 1 THEN BigCmp(x.mag, y.mag) < 0
       ELSE BigCmp(x.mag, y.mag) > 0
FGt(x, y) == FLt(y, x)

\* np.pi = 0x1.921fb54442d18p+1
Pi == Double(1, <<3072, 17453, 30376, 25735>>)
QuarterTurn == FDivInt(Pi, 2)
FullTurn == FMulInt(Pi, 2)

\* np.deg2rad(x) = x * (np.pi / 180.0), for a field x of the table
RadPerDeg == FDivInt(Pi, 180)
deg2rad(x) ==
    IF IsNaN(x) THEN FNaN
    ELSE IF x >= 0 THEN FMulInt(RadPerDeg, x)
    ELSE Neg(FMulInt(RadPerDeg, -x))

----------------------------------------------------------------------------
(* Strings: a date is a sequence of one-character strings. *)

DigitChar == <<"0", "1", "2", "3", "4", "5", "6", "7", "8", "9">>
Fmt02d(n) == <<DigitChar[(n \div 10) + 1], DigitChar[(n % 10) + 1]>>
MonthPattern(m) == <<"-">> \o Fmt02d(m) \o <<"-">>
\* Python's `pat in s` for strings
StrIn(pat, s) ==
    \E k \in 0..(Len(s) - Len(pat)) : SubSeq(s, k + 1, k + Len(pat)) = pat

----------------------------------------------------------------------------
(* numpy and pandas *)

Range(n) == [k \in 1..n |-> k - 1]
\* np.where(mask)[0]: the 0-based positions where mask holds, ascending
Where(mask) == SelectSeq(Range(Len(mask)), LAMBDA p : mask[p + 1])

Column(t, name) == [k \in 1..Len(t) |-> [label |-> k - 1, value |-> t[k][name]]]
Labels(s) == {s[k].label : k \in 1..Len(s)}
AtLabel(s, l) == (CHOOSE k \in 1..Len(s) : s[k].label = l)

PandasApis == {"reindex", "loc_lenient", "loc_strict"}
\* Series.__getitem__(array of integers) on an integer index raises KeyError:
\*   "loc_strict"  (pandas >= 1.0): when any key is not a label;
\*   "loc_lenient" (0.23 - 0.25):   when the keys are not empty and none is a label;
\*   "reindex"     (<= 0.22):       never.
GetItemRaises(api, s, keys) ==
    LET missing == {k \in 1..Len(keys) : keys[k] \notin Labels(s)}
    IN  CASE api = "loc_strict" -> missing # {}
          [] api = "loc_lenient" -> Len(keys) > 0 /\ Cardinality(missing) = Len(keys)
          [] OTHER -> FALSE
\* and otherwise the values at the labels, in the order of the keys, NaN for a
\* key that is no label.
GetItem(s, keys) ==
    [k \in 1..Len(keys) |->
        [label |-> keys[k],
         value |-> IF keys[k] \in Labels(s) THEN s[AtLabel(s, keys[k])].value
                   ELSE NaN]]

----------------------------------------------------------------------------
(* _clean_wind_data *)

\* ~np.isnan(df['WDF5']) & ~np.isnan(df['WSF5']), for one row
NotMissingEither(row) == ~IsNaN(row.WDF5) \/ ~IsNaN(row.WSF5)
NotMissing(row) == ~IsNaN(row.WDF5) /\ ~IsNaN(row.WSF5)

\* The dtype pd.read_csv gives a column of whole numbers: object when the file
\* has only its header row, float64 when a field of the column is missing (it
\* reads as NaN), int64 otherwise.
NumericDtype(t, name) ==
    IF Len(t) = 0 THEN "object"
    ELSE IF \E k \in 1..Len(t) : IsNaN(t[k][name]) THEN "float64"
    ELSE "int64"
\* np.isnan has no loop for an object array, of any length: TypeError; it
\* takes int64 and float64.
IsnanRaises(t) ==
    NumericDtype(t, "WDF5") = "object" \/ NumericDtype(t, "WSF5") = "object"

CleanIndex(t) == Where([k \in 1..Len(t) |-> NotMissing(t[k])])

\* The table's index is read_csv's RangeIndex 0..n-1, so every position that
\* np.where returns is a label of the column.
clean_wind_data(t) ==
    LET index == CleanIndex(t)
    IN  [DATE |-> GetItem(Column(t, "DATE"), index),
         WDF5 |-> GetItem(Column(t, "WDF5"), index),
         WSF5 |-> GetItem(Column(t, "WSF5"), index)]

----------------------------------------------------------------------------
(* _polar_histogram *)

\* hist_bins = 20, in main
hist_bins == 20

\* th = (-heading_rad + np.pi/2) % (2 * np.pi).  (HeadingToAngleNoMod,
\* NotMissingEither and InBinHalfOpen are faulty variants, used to see that a
\* property notices.)
HeadingToAngleNoMod(h) == FAdd(Neg(h), QuarterTurn)
HeadingToAngle(h) == FMod(FAdd(Neg(h), QuarterTurn), FullTurn)

\* width = 2 * np.pi / bins
Width(b) == FDivInt(FullTurn, b)

\* the bin counts in use, and width*i for each of them and every i in 0..bins
BinCounts == (1..MaxBins) \cup {hist_bins}
Edges == [b \in BinCounts |-> [j \in 0..b |-> FMulInt(Width(b), j)]]

\* (th > width*i) & (th < width*(i + 1)), for one angle
InBinHalfOpen(t, j, b) == ~FLt(t, Edges[b][j]) /\ FLt(t, Edges[b][j + 1])
InBin(t, j, b) == FGt(t, Edges[b][j]) /\ FLt(t, Edges[b][j + 1])

\* counts = np.array([len(np.where(...)[0]) for i in range(bins)])
Counts(t, b) ==
    [j \in 0..(b - 1) |-> Cardinality({k \in 1..Len(t) : InBin(t[k], j, b)})]

\* theta = np.linspace(0., 2 * np.pi, bins, endpoint=False): the step
\* (2*pi - 0.)/bins times 0, 1, ..., bins - 1, plus 0., for each bin count
Thetas ==
    [b \in BinCounts |->
        [j \in 0..(b - 1) |-> FAdd(FMulInt(FDivInt(FullTurn, b), j), Zero)]]
Linspace(b) == Thetas[b]

\* radii = counts / counts.sum()
Radii(c, b) ==
    LET total == SumTo(c, b)
    IN  [j \in 0..(b - 1) |-> TrueDivide(c[j], total)]

\* The call's locals and the arguments of ax.bar(theta, radii, width=width,
\* bottom=0.01, ...)
polar_histogram(heading, b) ==
    LET t == [k \in 1..Len(heading) |-> HeadingToAngle(heading[k])]
        c == Counts(t, b)
    IN  [th |-> t,
         counts |-> c,
         bar |-> [theta |-> Linspace(b), radii |-> Radii(c, b),
                  width |-> Width(b), bottom |-> Frac(1, 100)]]

\* plt.subplot2grid(shape, loc, rowspan, colspan, polar=True), then the
\* histogram drawn on it (its counts are kept with the subplot) and set_title
Subplot(shape, loc, rowspan, colspan, title, c) ==
    [shape |-> shape, loc |-> loc, rowspan |-> rowspan, colspan |-> colspan,
     polar |-> TRUE, title |-> title, counts |-> c]

----------------------------------------------------------------------------
(* main *)

TitleAll == <<"W", "i", "n", "d", " ", "d", "i", "r", " ", "K", "A", "R", "B">>
\* 'Mon %02d' % (i + 1)
TitleMonth(m) == <<"M", "o", "n", " ">> \o Fmt02d(m)

\* index = np.where([('-%02d-' % (i + 1)) in d for d in date])[0]: POSITIONS
\* in the clean sequence; iterating a Series yields its values.
MonthIndex(dates, m) ==
    Where([k \in 1..Len(dates) |-> StrIn(MonthPattern(m), dates[k].value)])

\* r = int(i / 6); c = (i % 6) + 2
GridCell(n) == <<n \div 6, (n % 6) + 2>>

----------------------------------------------------------------------------
(* Inputs *)

\* 'YYYY-MM-DD', as the csv export writes the DATE column
DateStr(y, m, d) ==
    Fmt02d(y \div 100) \o Fmt02d(y % 100) \o <<"-">> \o Fmt02d(m) \o <<"-">> \o Fmt02d(d)

Dates == {DateStr(2018, 1, 12), DateStr(2018, 12, 1)}
Directions == {NaN, 90, 100}      \* compass degrees; 90 lies on a bin edge
Speeds == {NaN, 5}
Rows == [DATE : Dates, WDF5 : Directions, WSF5 : Speeds]

SeqsUpTo(S, n) == UNION {[1..k -> S] : k \in 0..n}
Tables == SeqsUpTo(Rows, MaxRows)

\* Headings for the binner alone.  In whole degrees: sequences of 0 and 90
\* (their angles pi/2 and 0 are bin edges for 4 bins, 0 for every bin count),
\* of two headings inside bins, and of 30 and 330, whose angles are an ulp
\* above the edge pi/3 of 6 bins and the edge 2*pi/3 of 3 bins; the four
\* compass points; and, over several turns in both senses, single headings
\* for every bin count and pairs of headings for one bin.
Angles == {0, 90, 45, 100, 30, 330}
CompassPoints == <<0, 90, 180, 270>>
WideAngles == (-MaxTurn * 360)..(MaxTurn * 360)
Radians(q) == [k \in 1..Len(q) |-> deg2rad(q[k])]
\* And two headings that are no whole degree: 2^-58, the least this model
\* holds, and the double next above pi/2.
Tiny == Double(1, <<1>>)
JustPastQuarter == Double(1, BigAdd(QuarterTurn.mag, Big(2^6)))

----------------------------------------------------------------------------
(* The program *)

NoCall ==
    /\ heading_rad = <<>>
    /\ bins = hist_bins
    /\ th = <<>>
    /\ counts = <<>>
    /\ bar = <<>>

Init ==
    /\ pc = "read"
    /\ pandas \in PandasApis
    /\ df = <<>>
    /\ date = <<>> /\ wd = <<>> /\ ws = <<>>
    /\ i = 0
    /\ NoCall
    /\ axes = <<>>

\* df = pd.read_csv(args.csv)
ReadCsv ==
    /\ pc = "read"
    /\ df' \in Tables
    /\ pc' = "clean"
    /\ UNCHANGED <<pandas, date, wd, ws, i, call, axes>>

\* (date, wd, ws) = _clean_wind_data(df).  Nothing catches the TypeError of
\* np.isnan, and main ends.
Clean ==
    /\ pc = "clean"
    /\ IF IsnanRaises(df)
       THEN /\ pc' = "TypeError"
            /\ UNCHANGED <<date, wd, ws>>
       ELSE LET out == clean_wind_data(df)
            IN  /\ date' = out.DATE
                /\ wd' = out.WDF5
                /\ ws' = out.WSF5
                /\ pc' = "plot_all"
    /\ UNCHANGED <<pandas, df, i, call, axes>>

\* _polar_histogram(ax, heading, b), for the actions
CallHistogram(heading, b) ==
    LET out == polar_histogram(heading, b)
    IN  /\ heading_rad' = heading
        /\ bins' = b
        /\ th' = out.th
        /\ counts' = out.counts
        /\ bar' = out.bar

\* hist_bins = 20 ... ax.set_title('Wind dir KARB'), and the loop's start
PlotAll ==
    /\ pc = "plot_all"
    /\ CallHistogram([k \in 1..Len(wd) |-> deg2rad(wd[k].value)], hist_bins)
    /\ axes' = <<Subplot(<<2, 8>>, <<0, 0>>, 2, 2, TitleAll, counts')>>
    /\ i' = 0
    /\ pc' = "plot_month"
    /\ UNCHANGED <<pandas, df, date, wd, ws>>

\* One pass of `for i in range(12)`.  wd[index] raises KeyError before the
\* subplot is made; nothing catches it and main ends without plt.show().
PlotMonth ==
    /\ pc = "plot_month"
    /\ i < 12
    /\ LET index == MonthIndex(date, i + 1)
       IN  IF GetItemRaises(pandas, wd, index)
           THEN /\ pc' = "KeyError"
                /\ UNCHANGED <<i, call, axes>>
           ELSE LET wdi == GetItem(wd, index)
                IN  /\ CallHistogram([k \in 1..Len(wdi) |-> deg2rad(wdi[k].value)],
                                     hist_bins)
                    /\ axes' = Append(axes, Subplot(<<2, 8>>, GridCell(i), 1, 1,
                                                    TitleMonth(i + 1), counts'))
                    /\ i' = i + 1
                    /\ pc' = IF i + 1 < 12 THEN "plot_month" ELSE "show"
    /\ UNCHANGED <<pandas, df, date, wd, ws>>

\* plt.show(), which returns when the figure is closed
Show ==
    /\ pc = "show"
    /\ pc' = "done"
    /\ UNCHANGED <<pandas, df, date, wd, ws, i, call, axes>>

Next == ReadCsv \/ Clean \/ PlotAll \/ PlotMonth \/ Show

Spec == Init /\ [][Next]_vars

----------------------------------------------------------------------------
(* _polar_histogram alone, on any angle sequence and bin count *)

InitBinner ==
    /\ pc = "call"
    /\ pandas = "loc_strict"
    /\ df = <<>>
    /\ date = <<>> /\ wd = <<>> /\ ws = <<>>
    /\ i = 0
    /\ \/ /\ heading_rad \in {Radians(q) : q \in SeqsUpTo(Angles, MaxLen)}
             \cup {Radians(CompassPoints)}
             \cup {<<deg2rad(h)>> : h \in WideAngles}
             \cup {<<Zero, Tiny>>, <<JustPastQuarter>>}
          /\ bins \in 1..MaxBins
       \/ /\ heading_rad \in {<<deg2rad(h), deg2rad(g)>> : h \in WideAngles, g \in Angles}
          /\ bins = 1
    /\ th = <<>>
    /\ counts = <<>>
    /\ bar = <<>>
    /\ axes = <<>>

CallPolarHistogram ==
    /\ pc = "call"
    /\ CallHistogram(heading_rad, bins)
    /\ axes' = <<Subplot(<<1, 1>>, <<0, 0>>, 1, 1, <<>>, counts')>>
    /\ pc' = "returned"
    /\ UNCHANGED <<pandas, df, date, wd, ws, i>>

NextBinner == CallPolarHistogram

SpecBinner == InitBinner /\ [][NextBinner]_vars

----------------------------------------------------------------------------
(* Properties.  Each is stated from the table, the dates, the angles and the *)
(* bin edges themselves, not through the operators that model the code.      *)

\* the locals and the bar of a _polar_histogram call are available
CallMade == pc \in {"plot_month", "show", "done", "KeyError", "returned"}
\* main has ended: plt.show() returned, or np.isnan or wd[index] raised
Ended == pc \in {"done", "KeyError", "TypeError"}

BothPresent(row) == row.WDF5 # NaN /\ row.WSF5 # NaN

\* the calendar month of a 'YYYY-MM-DD' date: its 6th and 7th characters
DigitVal(ch) == CHOOSE n \in 0..9 : DigitChar[n + 1] = ch
MonthOf(d) == 10 * DigitVal(d[6]) + DigitVal(d[7])

Occurrences(q, v) == Cardinality({k \in 1..Len(q) : q[k] = v})
SameBag(p, q) ==
    /\ Len(p) = Len(q)
    /\ \A k \in 1..Len(p) : Occurrences(p, p[k]) = Occurrences(q, p[k])

\* the angle t is one of the edges 0, w, 2w, ..., bins*w, as doubles
OnEdge(t) == \E e \in 0..bins : t = Edges[bins][e]
\* j*w <= t < (j+1)*w: the half-open range of bin j holds t
Holds(j, t) == ~FLt(t, Edges[bins][j]) /\ FLt(t, Edges[bins][j + 1])
BinsHolding(t) == {j \in 0..(bins - 1) : Holds(j, t)}

\* x - y without rounding
Sub(x, y) == ExactAdd(x, Neg(y))
\* how far x is from the nearest whole number of full turns, in units of 2^-58
TurnDistance(x) ==
    LET m == BigMod(x.mag, FullTurn.mag)
        n == BigSub(FullTurn.mag, m)
    IN  IF BigCmp(m, n) <= 0 THEN m ELSE n
\* 2^-47 radian: more than the rounding of two angles computed from headings
\* below 32 radians
Tolerance == Big(2^11)
\* what is left of the angle difference plus the heading difference of the
\* samples k and l, whole turns apart
ReversalError(k, l) ==
    TurnDistance(ExactAdd(Sub(th[l], th[k]), Sub(heading_rad[l], heading_rad[k])))
InFirstTurn(h) == h.sign = 1 /\ FLt(h, FullTurn)

\* the three sequences hold exactly the rows with both WDF5 and WSF5 present,
\* in the table's row order, the k-th of each taken from the same row
PresentRowsKept ==
    /\ Len(date) = Len(wd) /\ Len(wd) = Len(ws)
    /\ \A k \in 1..Len(wd) :
          /\ date[k].label = wd[k].label /\ ws[k].label = wd[k].label
          /\ wd[k].label \in 0..(Len(df) - 1)
          /\ date[k].value = df[wd[k].label + 1].DATE
          /\ wd[k].value = df[wd[k].label + 1].WDF5
          /\ ws[k].value = df[wd[k].label + 1].WSF5
    /\ \A k \in 1..(Len(wd) - 1) : wd[k].label < wd[k + 1].label
    /\ {wd[k].label : k \in 1..Len(wd)}
          = {r \in 0..(Len(df) - 1) : BothPresent(df[r + 1])}

\* C1: for every table, the empty one included, _clean_wind_data returns
\* three sequences of equal length that hold exactly the rows with both WDF5
\* and WSF5 present, in the table's row order, the k-th date, direction and
\* speed taken from the same row.
C1_CleanKeepsPresentRows ==
    pc \notin {"read", "clean"} => (pc # "TypeError" /\ PresentRowsKept)

\* What does hold: whenever _clean_wind_data returns, it returns those rows.
CleanReturnsPresentRows ==
    pc \notin {"read", "clean", "TypeError"} => PresentRowsKept

\* a table of three rows: both present, direction missing, speed missing
CleanReturnsPresentRows_Witness ==
    /\ pc = "plot_all"
    /\ Len(df) = 3
    /\ BothPresent(df[1])
    /\ df[2].WDF5 = NaN /\ df[2].WSF5 # NaN
    /\ df[3].WDF5 # NaN /\ df[3].WSF5 = NaN
    /\ Len(wd) = 1 /\ wd[1].value = df[1].WDF5

\* the directions of the clean samples of calendar month m, in radians
CleanDirectionsOfMonth(m) ==
    LET keep == SelectSeq(Range(Len(date)), LAMBDA p : MonthOf(date[p + 1].value) = m)
    IN  [k \in 1..Len(keep) |-> deg2rad(wd[keep[k] + 1].value)]

\* C2: for every month m, main passes to the binner exactly the directions of
\* the clean samples whose date has calendar month m, also when cleaning
\* dropped rows.  (Month i has been passed when the loop counter is i.)
C2_MonthGetsItsDirections ==
    /\ pc # "KeyError"
    /\ (pc \in {"plot_month", "show", "done"} /\ i >= 1)
          => SameBag(heading_rad, CleanDirectionsOfMonth(i))

RECURSIVE MonthlySum(_, _)
\* the sum of bin j's count over the subplots 2..n
MonthlySum(j, n) ==
    IF n <= 1 THEN 0 ELSE axes[n].counts[j] + MonthlySum(j, n - 1)

\* C3: when main has ended after cleaning, for every bin the counts of the monthly histograms
\* sum to the count of the aggregate histogram.
C3_MonthsSumToAggregate ==
    pc \in {"done", "KeyError"} => \A j \in 0..(hist_bins - 1) :
                MonthlySum(j, Len(axes)) = axes[1].counts[j]

\* C4: when the total count over all bins is zero, every normalised frequency
\* is 0 and none is NaN.
C4_ZeroTotalGivesZeroFrequencies ==
    (CallMade /\ SumTo(counts, bins) = 0) =>
        \A j \in 0..(bins - 1) :
            ~IsNaNFrac(bar.radii[j]) /\ bar.radii[j].num = 0

\* C5: a sample whose angle is no bin edge is counted in exactly one bin, the
\* one whose range holds it; a sample whose angle is a bin edge (0 and the full
\* circle included) is counted in none; so the counts sum to the number of
\* samples less those on an edge.
C5_EdgeSamplesDropped ==
    pc = "returned" =>
        /\ \A k \in 1..Len(th) :
              ~OnEdge(th[k]) => Cardinality(BinsHolding(th[k])) = 1
        /\ \A j \in 0..(bins - 1) :
              counts[j] = Cardinality({k \in 1..Len(th) :
                              ~OnEdge(th[k]) /\ Holds(j, th[k])})
        /\ SumTo(counts, bins)
              = Len(th) - Cardinality({k \in 1..Len(th) : OnEdge(th[k])})

\* three bins; 330 degrees an ulp above the edge 2*pi/3 and counted in bin 1,
\* 90 degrees on the edge 0 and dropped, 45 degrees inside bin 0
C5_Witness ==
    /\ pc = "returned"
    /\ bins = 3
    /\ heading_rad = Radians(<<330, 90, 45>>)
    /\ th[1] # Edges[3][1]
    /\ counts = [j \in 0..2 |-> IF j \in {0, 1} THEN 1 ELSE 0]

\* C6: the bins are the half-open ranges [j*w, (j+1)*w): every angle of
\* [0, 2*pi) is held by exactly one of them, and every sample is counted in the
\* bin that holds its angle, its lower edge included.
C6_HalfOpenBinsTile ==
    pc = "returned" =>
        /\ \A k \in 1..Len(th) :
              (~FLt(th[k], Zero) /\ FLt(th[k], FullTurn))
                  => Cardinality(BinsHolding(th[k])) = 1
        /\ \A j \in 0..(bins - 1) :
              counts[j] = Cardinality({k \in 1..Len(th) : Holds(j, th[k])})

\* C7: for a non-empty angle sequence there are bins frequencies, frequency j
\* is count j over the total count, and the frequencies sum to 1.
C7_FrequenciesSumToOne ==
    (pc = "returned" /\ Len(heading_rad) > 0) =>
        LET total == SumTo(counts, bins)
        IN  /\ DOMAIN bar.radii = 0..(bins - 1)
            /\ total # 0
            /\ \A j \in 0..(bins - 1) :
                  bar.radii[j].num * total = counts[j] * bar.radii[j].den
            /\ \A j \in 0..(bins - 1) : bar.radii[j].den = total
            /\ SumTo([j \in 0..(bins - 1) |-> bar.radii[j].num], bins) = total

\* C8: the headings 0, 90, 180 and 270 degrees with 4 bins put one sample in
\* each bin, each bin with frequency 1/4.
C8_CompassPointsOnePerBin ==
    (pc = "returned" /\ bins = 4 /\ heading_rad = Radians(CompassPoints)) =>
        \A j \in 0..3 :
            /\ counts[j] = 1
            /\ bar.radii[j].den # 0
            /\ 4 * bar.radii[j].num = bar.radii[j].den

\* C9: the transform maps every heading into [0, 2*pi), compass 0 to pi/2 and
\* compass 90 to 0; a heading d further on maps to the angle d further back
\* (mod 2*pi); distinct headings of [0, 2*pi) map to distinct angles; and 0 and
\* 360 degrees map to one angle.
C9_HeadingTransform ==
    pc = "returned" =>
        \A k \in 1..Len(heading_rad) :
            /\ ~FLt(th[k], Zero) /\ FLt(th[k], FullTurn)
            /\ (heading_rad[k] = deg2rad(0) => th[k] = QuarterTurn)
            /\ (heading_rad[k] = deg2rad(90) => th[k] = Zero)
            /\ (heading_rad[k] = deg2rad(360) => th[k] = QuarterTurn)
            /\ \A l \in 1..Len(heading_rad) :
                  /\ Len(ReversalError(k, l)) = 0
                  /\ (/\ InFirstTurn(heading_rad[k])
                      /\ InFirstTurn(heading_rad[l])
                      /\ heading_rad[k] # heading_rad[l]) => th[k] # th[l]

\* C9, up to rounding: the transform maps every heading into [0, 2*pi], to 2*pi
\* itself only from within 2^-47 of pi/2 plus whole turns; compass 0 to pi/2
\* and compass 90 to 0; a heading d further on maps to within 2^-47 of the
\* angle d further back (mod 2*pi); headings of [0, 2*pi) more than 2^-47 apart
\* on the circle map to distinct angles; and 0 and 360 degrees map to one angle.
C9_HeadingTransformRounded ==
    pc = "returned" =>
        \A k \in 1..Len(heading_rad) :
            /\ ~FLt(th[k], Zero) /\ ~FGt(th[k], FullTurn)
            /\ th[k] = FullTurn =>
                  BigCmp(TurnDistance(Sub(heading_rad[k], QuarterTurn)), Tolerance) <= 0
            /\ (heading_rad[k] = deg2rad(0) => th[k] = QuarterTurn)
            /\ (heading_rad[k] = deg2rad(90) => th[k] = Zero)
            /\ (heading_rad[k] = deg2rad(360) => th[k] = QuarterTurn)
            /\ \A l \in 1..Len(heading_rad) :
                  /\ BigCmp(ReversalError(k, l), Tolerance) <= 0
                  /\ (/\ InFirstTurn(heading_rad[k])
                      /\ InFirstTurn(heading_rad[l])
                      /\ BigCmp(TurnDistance(Sub(heading_rad[k], heading_rad[l])),
                                Tolerance) > 0) => th[k] # th[l]

\* the headings -30 and 330 degrees, a whole turn apart: their angles differ,
\* by less than the tolerance
C9_Witness ==
    /\ pc = "returned"
    /\ heading_rad = <<deg2rad(-30), deg2rad(330)>>
    /\ th[1] # th[2]
    /\ BigCmp(TurnDistance(Sub(th[1], th[2])), Tolerance) <= 0

\* C10: a run of main makes 13 histograms with the same bin count, the
\* aggregate first in the 2x2 block at (0, 0), then the months 1..12 in order,
\* month n (0-based) at cell (n div 6, n mod 6 + 2) of the 2x8 grid; the
\* monthly cells are distinct, inside the grid and outside the aggregate's
\* block; bar j of a histogram is at angle j*w.
C10_ThirteenHistograms ==
    Ended =>
        /\ Len(axes) = 13
        /\ axes[1].loc = <<0, 0>> /\ axes[1].rowspan = 2 /\ axes[1].colspan = 2
        /\ axes[1].title = TitleAll
        /\ \A n \in 0..11 :
              /\ axes[n + 2].loc = <<n \div 6, (n % 6) + 2>>
              /\ axes[n + 2].rowspan = 1 /\ axes[n + 2].colspan = 1
              /\ axes[n + 2].title = TitleMonth(n + 1)
              /\ axes[n + 2].loc[1] \in 0..1 /\ axes[n + 2].loc[2] \in 2..7
              /\ \A m \in 0..11 : m # n => axes[m + 2].loc # axes[n + 2].loc
        /\ \A n \in 1..13 :
              /\ axes[n].shape = <<2, 8>>
              /\ DOMAIN axes[n].counts = 0..(hist_bins - 1)
        /\ \A j \in 0..(hist_bins - 1) : bar.theta[j] = Edges[hist_bins][j]

\* What does hold of every run of main, ended or not: the subplots made so far
\* are the aggregate and then the months in order, each at its cell.
SubplotsMadeAreInPlace ==
    \A n \in 1..Len(axes) :
        /\ axes[n].shape = <<2, 8>>
        /\ n = 1 => axes[n].loc = <<0, 0>> /\ axes[n].title = TitleAll
        /\ n > 1 =>
              /\ axes[n].loc = <<(n - 2) \div 6, ((n - 2) % 6) + 2>>
              /\ axes[n].title = TitleMonth(n - 1)

====
